---- MODULE Spec2Model ----
(***************************************************************************)
(* Conversation orchestration of chatbot_gym: one ConversationOrchestrator *)
(* run (start_conversation) between a UserAgent (the Initiator, owner of   *)
(* conversation_history) and a ChatAgent (the Responder), with a           *)
(* concurrent stop_conversation, the blocking generation calls and the     *)
(* final save_conversation.                                                *)
(*                                                                         *)
(* Texts are sequences of tokens; Python's None is the record None and a   *)
(* str value t is Str(t), so "" is Str(<<>>).  Times are integers:         *)
(* wall-clock latencies in microseconds, response_time_seconds in          *)
(* thousandths of a second ("0.0" is 0).                                    *)
(***************************************************************************)
EXTENDS Integers, Sequences, FiniteSets, TLC

\* ---------------------------------------------------------------- bounds
MaxTurnsBound == 4

\* ------------------------------------------------------- values and texts
None == [some |-> FALSE, text |-> <<>>]

Str(t) == [some |-> TRUE, text |-> t]

\* Python truthiness of an Optional[str]: None and "" are falsy.
Truthy(m) == m.some /\ m.text # <<>>

BootstrapMessage == <<"Hello, I need some help.">>

ExplicitOpening == <<"Hello! Thank you for calling customer service.">>

Greeting == <<"Hello! Welcome to The Home Depot.">>

\* What the Initiator's provider may answer (a failure is None).
UserTexts ==
    { <<"My order is late.">>,
      <<"Ok.", "Thank You, Goodbye.">>,
      <<"thank you, goodbye.">> }

\* What the Responder's provider may answer (a failure is None).
ChatTexts == { <<"Let me check that for you.">>, <<>> }

\* Wall-clock latencies of a generation call, in microseconds.
ElapsedUs == { 300400, 1200600 }

\* str.lower() on one token.
LowerToken(t) ==
    CASE t = "Thank You, Goodbye." -> "thank you, goodbye."
      [] t = "Ok." -> "ok."
      [] t = "My order is late." -> "my order is late."
      [] t = "Let me check that for you." -> "let me check that for you."
      [] OTHER -> t

Lower(text) == [i \in 1..Len(text) |-> LowerToken(text[i])]

EndingPhrase == "thank you, goodbye."

\* _should_end_conversation: ending_phrase in message.lower()
ShouldEndConversation(text) ==
    \E i \in 1..Len(text) : Lower(text)[i] = EndingPhrase

\* round(response_time, 3), from microseconds to thousandths of a second.
Round3(us) == (us + 500) \div 1000

\* The response_time_seconds key is absent from a turn the UserAgent has
\* just appended.
Missing == -1

NullPath == [some |-> FALSE, folder |-> "", agent_id |-> "", stamp |-> 0]

\* save_conversation's file path: conversations/conversation_<id>_<ts>.json
PathOf(id, stamp) ==
    [some |-> TRUE, folder |-> "conversations", agent_id |-> id, stamp |-> stamp]

UserAgentId == "frustrated_customer"

\* ------------------------------------------------------------------ state
VARIABLES
    pc,                    \* position of the start_conversation thread
    conversation_active,   \* ConversationOrchestrator.conversation_active
    initial_message,       \* start_conversation's parameter
    max_turns,             \* start_conversation's parameter
    greeting,              \* chat_agent.initial_message
    turn_count,            \* local turn_count
    last_message,          \* local last_message
    response,              \* what the last generation call returned
    conversation_history,  \* user_agent.conversation_history
    now,                   \* the clock read by datetime.now()
    calls,                 \* generation calls made so far, in order
    gen_failed,            \* generation calls that returned a failure
    save_requests,         \* calls of save_conversation
    saved,                 \* transcript files written: <<>> or <<record>>
    returned,              \* start_conversation's result: <<>> or <<dict>>
    llama_client,          \* per agent: the provider client was constructed
    fs,                    \* the files under conversations/: path -> content
    load_result,           \* what the last load_conversation returned
    batch_pc,              \* position of the batch_run request thread
    workers,               \* batch_run's threads: template key -> state
    results,               \* batch_run's shared results map
    results_lock,          \* holder of results_lock, or "free"
    report,                \* batch_run's aggregate report: <<>> or <<dict>>
    request                \* the JSON bodies of the requests being served

vars ==
    << pc, conversation_active, initial_message, max_turns, greeting,
       turn_count, last_message, response, conversation_history, now,
       calls, gen_failed, save_requests, saved, returned, llama_client,
       fs, load_result, batch_pc, workers, results, results_lock, report,
       request >>

\* What a step of one start_conversation run leaves alone.
others ==
    << llama_client, fs, load_result, batch_pc, workers, results,
       results_lock, report, request >>

\* One history entry.
Turn(speaker, text, stamp, rt) ==
    [speaker |-> speaker, message |-> text, timestamp |-> stamp,
     response_time_seconds |-> rt]

\* __init__ of the orchestrator over fresh agents.
Init ==
    /\ pc = "idle"
    /\ conversation_active = FALSE
    /\ initial_message = None
    /\ max_turns = 0
    /\ greeting \in { None, Str(<<>>), Str(Greeting) }
    /\ turn_count = 0
    /\ last_message = None
    /\ response = None
    /\ conversation_history = <<>>
    /\ now = 0
    /\ calls = <<>>
    /\ gen_failed = 0
    /\ save_requests = 0
    /\ saved = <<>>
    /\ returned = <<>>
    /\ llama_client \in [{ "user_agent", "chat_agent" } -> BOOLEAN]
    /\ fs = <<>>
    /\ load_result = [called |-> FALSE, ok |-> FALSE, path |-> NullPath]
    /\ batch_pc = "off"
    /\ workers = <<>>
    /\ results = <<>>
    /\ results_lock = "free"
    /\ report = <<>>
    /\ request = <<>>

\* --------------------------------------------------- decisions of the loop
\* Mutant: the Responder's greeting wins over the explicit parameter.
ResolveOpeningGreetingFirst(im, gr) ==
    IF Truthy(gr) THEN gr
    ELSE IF im.some THEN im
    ELSE None

\* Lines 45-50: parameter > chat_agent.initial_message > user agent starts.
ResolveOpening(im, gr) ==
    IF im.some THEN im
    ELSE IF Truthy(gr) THEN gr
    ELSE None

\* Mutant: the loop condition forgets the stop flag.
LoopContinuesIgnoringStop(active, tc, mt) == tc < mt

\* Mutant: the loop condition gives up one turn early.
LoopContinuesShort(active, tc, mt) == active /\ tc + 1 < mt

\* Mutant: the loop runs while the counter has not passed the budget.
LoopContinuesInclusive(active, tc, mt) == active /\ tc <= mt

\* Mutant: the loop condition forgets the turn budget.
LoopContinuesIgnoringBudget(active, tc, mt) == active

\* Line 83: while self.conversation_active and turn_count < max_turns
LoopContinues(active, tc, mt) == active /\ tc < mt

\* Mutant: the ChatAgent takes every even turn, whoever opened.
ChatAgentTurnEven(tc, im) == tc % 2 = 0

\* Line 86: turn_count % 2 == (0 if initial_message else 1)
ChatAgentTurn(tc, im) == tc % 2 = (IF Truthy(im) THEN 0 ELSE 1)

\* Mutant: a failed call is not noticed.
IsFailureMissed(r) == FALSE

\* Lines 72, 99, 124: response is None
IsFailure(r) == ~r.some

\* get_system_prompt / system_prompt, as one text per persona.
SystemPrompt(agent) ==
    IF agent = "user_agent" THEN <<"base, personality and roleplay prompt">>
    ELSE <<"You are a helpful customer service representative.">>

\* user_agent.py line 136: the role of a history turn in the Initiator's
\* prompt.
UserAgentRole(speaker) == IF speaker = "user_agent" THEN "assistant" ELSE "user"

\* Mutant: the ChatAgent frames the turns as the UserAgent does.
ChatAgentRoleNotInverted(speaker) ==
    IF speaker = "user_agent" THEN "assistant" ELSE "user"

\* chat_agent.py line 111: the role of a history turn in the Responder's
\* prompt.
ChatAgentRole(speaker) == IF speaker = "user_agent" THEN "user" ELSE "assistant"

\* The messages list of a generate_response call: the system prompt, the
\* history turn by turn, the incoming message as the newest "user" message.
BuildMessages(agent, incoming, history) ==
    << [role |-> "system", content |-> SystemPrompt(agent)] >>
    \o [i \in 1..Len(history) |->
           [role |-> IF agent = "user_agent"
                     THEN UserAgentRole(history[i].speaker)
                     ELSE ChatAgentRole(history[i].speaker),
            content |-> history[i].message]]
    \o << [role |-> "user", content |-> incoming] >>

\* A generation call: who is asked, the incoming message, the history the
\* prompt context is built from, and the messages sent to the provider
\* (none when the agent has no client: generate_response returns at once).
Call(agent, incoming, history) ==
    [agent |-> agent, message |-> incoming, context |-> history,
     messages |-> IF llama_client[agent]
                  THEN BuildMessages(agent, incoming, history)
                  ELSE <<>>]

\* What a generate_response call of the agent may return: None without a
\* client, else the provider's answer or None when the call raises.
Answers(agent) ==
    IF ~llama_client[agent] THEN { None }
    ELSE { None } \cup { Str(t) : t \in IF agent = "user_agent" THEN UserTexts
                                                               ELSE ChatTexts }

\* Mutant: the UserAgent appends a turn whatever the call returned.
UserAgentHistoryAlwaysAppends(history, out, stamp) ==
    Append(history, Turn("user_agent", out.text, stamp, Missing))

\* user_agent.py lines 152-166: the UserAgent's history after its call.
UserAgentHistory(history, out, stamp) ==
    IF out.some
    THEN Append(history, Turn("user_agent", out.text, stamp, Missing))
    ELSE history

\* Mutant: the Orchestrator never sets the response time.
PatchLastSkipped(history, rt, needUserAgent) == history

\* Mutant: the Orchestrator sets the response time of every entry.
PatchLastAll(history, rt, needUserAgent) ==
    [i \in 1..Len(history) |-> [history[i] EXCEPT !.response_time_seconds = rt]]

\* Lines 129-130 (and 76-77): patch the last entry's response time.
PatchLast(history, rt, needUserAgent) ==
    IF history # <<>> /\ (needUserAgent => history[Len(history)].speaker = "user_agent")
    THEN [history EXCEPT ![Len(history)].response_time_seconds = rt]
    ELSE history

\* get_conversation_summary, the fields the result is read for.
ConversationSummary(history) ==
    [total_turns |-> Len(history),
     user_agent_turns |-> Cardinality({i \in 1..Len(history) : history[i].speaker = "user_agent"}),
     chat_agent_turns |-> Cardinality({i \in 1..Len(history) : history[i].speaker = "chat_agent"})]

\* _create_result_dict
CreateResultDict(success, message, tc, filepath, history) ==
    [success |-> success, message |-> message, turn_count |-> tc,
     saved_filepath |-> filepath,
     conversation_summary |-> ConversationSummary(history)]

\* get_conversation_status, the fields read here.
GetConversationStatus ==
    [active |-> conversation_active,
     conversation_summary |-> ConversationSummary(conversation_history)]

\* Mutant: the opening utterance is appended without a response time.
OpeningTurnUntimed(text, stamp) == Turn("chat_agent", text, stamp, Missing)

\* Lines 56-61: the history entry of the opening utterance, a Responder
\* turn with response time "0.0".
OpeningTurn(text, stamp) == Turn("chat_agent", text, stamp, 0)

\* ---------------------------------------------------------------- actions
\* start_conversation, lines 41-50.
StartConversation ==
    /\ pc = "idle"
    /\ \E im \in { None, Str(<<>>), Str(ExplicitOpening) }, mt \in 0..MaxTurnsBound :
          /\ initial_message' = im
          /\ max_turns' = mt
          /\ last_message' = ResolveOpening(im, greeting)
    /\ conversation_active' = TRUE
    /\ turn_count' = 0
    /\ pc' = "resolved"
    /\ UNCHANGED << greeting, response, conversation_history, now, calls,
                    gen_failed, save_requests, saved, returned >>
    /\ UNCHANGED others

\* Lines 53-68: append the opening utterance, or start the bootstrap call.
Opening ==
    /\ pc = "resolved"
    /\ IF last_message.some
       THEN /\ conversation_history' =
                  Append(conversation_history, OpeningTurn(last_message.text, now))
            /\ now' = now + 1
            /\ calls' = calls
            /\ pc' = "loop_top"
       ELSE /\ calls' = Append(calls, Call("user_agent", BootstrapMessage,
                                           conversation_history))
            /\ pc' = "bootstrap_call"
            /\ UNCHANGED << conversation_history, now >>
    /\ UNCHANGED << conversation_active, initial_message, max_turns, greeting,
                    turn_count, last_message, response, gen_failed,
                    save_requests, saved, returned >>
    /\ UNCHANGED others

\* UserAgent.generate_response: the provider answers or fails; on an answer
\* the turn is appended without response_time_seconds.
UserGenerate ==
    /\ pc \in { "bootstrap_call", "user_call" }
    /\ \E out \in Answers("user_agent") :
          /\ response' = out
          /\ conversation_history' = UserAgentHistory(conversation_history, out, now)
          /\ now' = IF out.some THEN now + 1 ELSE now
          /\ gen_failed' = IF out.some THEN gen_failed ELSE gen_failed + 1
    /\ pc' = IF pc = "bootstrap_call" THEN "bootstrap_returned" ELSE "user_returned"
    /\ UNCHANGED << conversation_active, initial_message, max_turns, greeting,
                    turn_count, last_message, calls, save_requests, saved,
                    returned >>
    /\ UNCHANGED others

\* Lines 69-80: after the bootstrap call.
BootstrapReturned ==
    /\ pc = "bootstrap_returned"
    /\ IF IsFailure(response)
       THEN /\ returned' = << CreateResultDict(FALSE,
                                  "Failed to generate initial user message",
                                  turn_count, NullPath, conversation_history) >>
            /\ pc' = "done"
            /\ last_message' = response
            /\ UNCHANGED << conversation_history, turn_count >>
       ELSE /\ \E us \in ElapsedUs :
                  conversation_history' =
                      PatchLast(conversation_history, Round3(us), FALSE)
            /\ last_message' = response
            /\ turn_count' = turn_count + 1
            /\ pc' = "loop_top"
            /\ returned' = returned
    /\ UNCHANGED << conversation_active, initial_message, max_turns, greeting,
                    response, now, calls, gen_failed, save_requests, saved >>
    /\ UNCHANGED others

\* Lines 83-95 and 116-120: test the loop condition, pick the speaker and
\* start its generation call.
LoopTop ==
    /\ pc = "loop_top"
    /\ IF LoopContinues(conversation_active, turn_count, max_turns)
       THEN IF ChatAgentTurn(turn_count, initial_message)
            THEN /\ calls' = Append(calls, Call("chat_agent", last_message.text,
                                                conversation_history))
                 /\ pc' = "chat_call"
            ELSE /\ calls' = Append(calls, Call("user_agent", last_message.text,
                                                conversation_history))
                 /\ pc' = "user_call"
       ELSE /\ pc' = "save"
            /\ calls' = calls
    /\ UNCHANGED << conversation_active, initial_message, max_turns, greeting,
                    turn_count, last_message, response, conversation_history,
                    now, gen_failed, save_requests, saved, returned >>
    /\ UNCHANGED others

\* ChatAgent.generate_response: the provider answers or fails; no history
\* is touched.
ChatGenerate ==
    /\ pc \in { "chat_call", "final_call" }
    /\ \E out \in Answers("chat_agent") :
          /\ response' = out
          /\ gen_failed' = IF out.some THEN gen_failed ELSE gen_failed + 1
    /\ pc' = IF pc = "chat_call" THEN "chat_returned" ELSE "final_returned"
    /\ UNCHANGED << conversation_active, initial_message, max_turns, greeting,
                    turn_count, last_message, conversation_history, now,
                    calls, save_requests, saved, returned >>
    /\ UNCHANGED others

\* Lines 96-112 and 163: the ChatAgent's turn after its call returned.
ChatReturned ==
    /\ pc = "chat_returned"
    /\ IF IsFailure(response)
       THEN /\ pc' = "save"
            /\ UNCHANGED << conversation_history, now, last_message, turn_count >>
       ELSE /\ \E us \in ElapsedUs :
                  conversation_history' =
                      Append(conversation_history,
                             Turn("chat_agent", response.text, now, Round3(us)))
            /\ now' = now + 1
            /\ last_message' = response
            /\ turn_count' = turn_count + 1
            /\ pc' = "loop_top"
    /\ UNCHANGED << conversation_active, initial_message, max_turns, greeting,
                    response, calls, gen_failed, save_requests, saved, returned >>
    /\ UNCHANGED others

\* Lines 121-145 and 163: the UserAgent's turn after its call returned,
\* with the goodbye test that starts the closing ChatAgent call.
UserReturned ==
    /\ pc = "user_returned"
    /\ IF IsFailure(response)
       THEN /\ pc' = "save"
            /\ UNCHANGED << conversation_history, last_message, turn_count, calls >>
       ELSE /\ \E us \in ElapsedUs :
                  conversation_history' =
                      PatchLast(conversation_history, Round3(us), TRUE)
            /\ last_message' = response
            /\ IF ShouldEndConversation(response.text)
               THEN /\ calls' = Append(calls, Call("chat_agent", response.text,
                                                   conversation_history'))
                    /\ pc' = "final_call"
                    /\ turn_count' = turn_count
               ELSE /\ turn_count' = turn_count + 1
                    /\ pc' = "loop_top"
                    /\ calls' = calls
    /\ UNCHANGED << conversation_active, initial_message, max_turns, greeting,
                    response, now, gen_failed, save_requests, saved, returned >>
    /\ UNCHANGED others

\* Lines 146-161: the closing reply; "if final_response:" is truthiness.
FinalReturned ==
    /\ pc = "final_returned"
    /\ IF Truthy(response)
       THEN /\ \E us \in ElapsedUs :
                  conversation_history' =
                      Append(conversation_history,
                             Turn("chat_agent", response.text, now, Round3(us)))
            /\ now' = now + 1
            /\ turn_count' = turn_count + 1
       ELSE UNCHANGED << conversation_history, now, turn_count >>
    /\ pc' = "save"
    /\ UNCHANGED << conversation_active, initial_message, max_turns, greeting,
                    last_message, response, calls, gen_failed, save_requests,
                    saved, returned >>
    /\ UNCHANGED others

\* Mutant: the file is written from the history as it was before its last
\* turn.
TranscriptRecordStale(path, history) ==
    LET old == SubSeq(history, 1, Len(history) - 1)
    IN  [path |-> path,
         agent_id |-> UserAgentId,
         conversation_start |-> IF old # <<>> THEN old[1].timestamp ELSE -1,
         conversation_end |-> IF old # <<>> THEN old[Len(old)].timestamp ELSE -1,
         total_turns |-> Len(old),
         conversation |-> old]

\* UserAgent.save_conversation's record, the fields that depend on the run.
TranscriptRecord(path, history) ==
    [path |-> path,
     agent_id |-> UserAgentId,
     conversation_start |-> IF history # <<>> THEN history[1].timestamp ELSE -1,
     conversation_end |-> IF history # <<>> THEN history[Len(history)].timestamp ELSE -1,
     total_turns |-> Len(history),
     conversation |-> history]

\* Lines 165-171: save_conversation writes the file and the result is
\* built, or the write raises and the exception leaves start_conversation.
Save ==
    /\ pc = "save"
    /\ save_requests' = save_requests + 1
    /\ \/ /\ saved' = << TranscriptRecord(PathOf(UserAgentId, now),
                                          conversation_history) >>
          /\ returned' = << CreateResultDict(TRUE,
                                "Conversation completed successfully",
                                turn_count, PathOf(UserAgentId, now),
                                conversation_history) >>
          /\ pc' = "done"
       \/ /\ pc' = "raised"
          /\ UNCHANGED << saved, returned >>
    /\ UNCHANGED << conversation_active, initial_message, max_turns, greeting,
                    turn_count, last_message, response, conversation_history,
                    now, calls, gen_failed >>
    /\ UNCHANGED others

\* stop_conversation, from another thread, at any time.
StopConversation ==
    /\ conversation_active' = FALSE
    /\ UNCHANGED << pc, initial_message, max_turns, greeting, turn_count,
                    last_message, response, conversation_history, now, calls,
                    gen_failed, save_requests, saved, returned >>
    /\ UNCHANGED others

Next ==
    \/ StartConversation
    \/ Opening
    \/ UserGenerate
    \/ BootstrapReturned
    \/ LoopTop
    \/ ChatGenerate
    \/ ChatReturned
    \/ UserReturned
    \/ FinalReturned
    \/ Save
    \/ StopConversation

Spec == Init /\ [][Next]_vars

\* ----------------------------------------------------------------- claims
\* An opening utterance exists: an explicit one or the Responder's greeting.
HasOpening == initial_message.some \/ Truthy(greeting)

\* The run has left its loop (or never entered it) for good.
LoopOver == pc \in { "save", "done", "raised" }

\* Entry i of the history is an Initiator turn holding the closing phrase.
GoodbyeAt(i) ==
    /\ conversation_history[i].speaker = "user_agent"
    /\ ShouldEndConversation(conversation_history[i].message)

\* C1: in every reachable state no two consecutive entries of the
\* Initiator's history have the same speaker.
C1_TurnsAlternate ==
    \A i \in 1..(Len(conversation_history) - 1) :
        conversation_history[i].speaker # conversation_history[i + 1].speaker

\* C2: after any Initiator turn holding the closing phrase (the bootstrap
\* turn included) no further Initiator turn is appended, exactly one
\* Responder turn follows it once the loop is over, and the turn counter is
\* then still below max_turns.
C2_GoodbyeEndsRun ==
    \A i \in 1..Len(conversation_history) :
        GoodbyeAt(i) =>
            /\ \A j \in (i + 1)..Len(conversation_history) :
                   conversation_history[j].speaker = "chat_agent"
            /\ Len(conversation_history) <= i + 1
            /\ LoopOver =>
                   /\ Len(conversation_history) = i + 1
                   /\ turn_count < max_turns

\* C3: a returned result's turn_count is the length of the history.
C3_TurnCountIsHistoryLength ==
    pc = "done" => returned[1].turn_count = Len(conversation_history)

\* C4: when a generation call failed, the result has success = false and
\* the history (and what was persisted of it) holds exactly the turns of
\* the calls before it, plus the opening utterance.
C4_FailureReported ==
    (pc = "done" /\ gen_failed > 0) =>
        /\ returned[1].success = FALSE
        /\ Len(conversation_history) =
               (Len(calls) - 1) + (IF HasOpening THEN 1 ELSE 0)
        /\ saved # <<>> => saved[1].conversation = conversation_history

\* A generation call is in flight.
CallInFlight == pc \in { "bootstrap_call", "user_call", "chat_call", "final_call" }

\* The only generation call of the run was the bootstrap call and it failed.
BootstrapFailed == ~HasOpening /\ gen_failed = 1 /\ Len(calls) = 1

\* C5 as stated: no generation call follows a failure, and every returned
\* run has requested save_conversation exactly once and carries a saved path.
C5_EveryRunSavedOnce ==
    /\ gen_failed > 0 => ~CallInFlight
    /\ pc = "done" =>
           /\ save_requests = 1
           /\ returned[1].saved_filepath # NullPath

\* C5 (amended): no generation call follows a failure; save_conversation is
\* requested at most once; a returned run has requested it exactly once and
\* carries the path of the file that holds its history, except the run whose
\* bootstrap call failed, which returns success = false without requesting
\* a save and with a null path.
C5_SavedOnceUnlessBootstrapFails ==
    /\ gen_failed <= 1
    /\ gen_failed > 0 => ~CallInFlight
    /\ save_requests <= 1
    /\ pc = "done" =>
           IF BootstrapFailed
           THEN /\ save_requests = 0
                /\ saved = <<>>
                /\ returned[1].saved_filepath = NullPath
                /\ returned[1].success = FALSE
           ELSE /\ save_requests = 1
                /\ returned[1].saved_filepath # NullPath
                /\ saved # <<>>
                /\ saved[1].path = returned[1].saved_filepath
                /\ saved[1].conversation = conversation_history

\* C5 witness: a run whose generation call failed inside the loop returned
\* after one save.
C5_Witness ==
    /\ pc = "done"
    /\ gen_failed = 1
    /\ Len(calls) >= 2
    /\ save_requests = 1
    /\ returned[1].saved_filepath # NullPath

\* C6: the opening utterance is the explicit initial_message when one is
\* supplied, else the Responder's non-empty greeting, else there is none and
\* the first generation call is the Initiator's bootstrap call.
C6_OpeningPriority ==
    /\ pc = "resolved" =>
           /\ initial_message.some => last_message = initial_message
           /\ (~initial_message.some /\ Truthy(greeting)) => last_message = greeting
           /\ (~initial_message.some /\ ~Truthy(greeting)) => last_message = None
    /\ pc \notin { "idle", "resolved" } =>
           /\ initial_message.some =>
                  /\ conversation_history # <<>>
                  /\ conversation_history[1].speaker = "chat_agent"
                  /\ conversation_history[1].message = initial_message.text
           /\ (~initial_message.some /\ Truthy(greeting)) =>
                  /\ conversation_history # <<>>
                  /\ conversation_history[1].speaker = "chat_agent"
                  /\ conversation_history[1].message = greeting.text
           /\ (~initial_message.some /\ ~Truthy(greeting)) =>
                  /\ calls # <<>>
                  /\ calls[1] = Call("user_agent", BootstrapMessage, <<>>)
                  /\ conversation_history # <<>> =>
                         conversation_history[1].speaker = "user_agent"

\* C6 witness: an explicit opening beat a Responder greeting and was
\* answered.
C6_Witness ==
    /\ pc = "loop_top"
    /\ initial_message = Str(ExplicitOpening)
    /\ greeting = Str(Greeting)
    /\ Len(conversation_history) >= 2
    /\ conversation_history[1].message = ExplicitOpening

\* The scenario of C7, at return: max_turns = 4, no explicit opening, a
\* Responder greeting, no failed call, no stop request.
C7_Scenario ==
    /\ pc = "done"
    /\ max_turns = 4
    /\ ~initial_message.some
    /\ Truthy(greeting)
    /\ gen_failed = 0
    /\ conversation_active

NoGoodbye == \A i \in 1..Len(conversation_history) : ~GoodbyeAt(i)

\* The history [greeting "0.0", Initiator, Responder, Initiator, Responder]
\* of a run that used up its budget of 4.
C7_BudgetRun ==
    /\ Len(conversation_history) = 5
    /\ [i \in 1..5 |-> conversation_history[i].speaker] =
           << "chat_agent", "user_agent", "chat_agent", "user_agent", "chat_agent" >>
    /\ conversation_history[1].message = greeting.text
    /\ conversation_history[1].response_time_seconds = 0
    /\ returned[1].turn_count = 4
    /\ turn_count = max_turns

\* C7 as stated: the scenario ends with the five-entry history and
\* turn_count 4, or with turn_count 5 when the closing phrase triggered.
C7_ScenarioAsStated ==
    C7_Scenario =>
        IF NoGoodbye THEN C7_BudgetRun ELSE returned[1].turn_count = 5

\* C7 (amended): the scenario ends with the five-entry history and
\* turn_count 4; when the closing phrase triggers, at the Initiator's first
\* or second turn (entry 2 or 4), turn_count is 1 or 3 (0 or 2 when the
\* closing reply is empty and so not appended), never 5.
C7_ScenarioAmended ==
    C7_Scenario =>
        IF NoGoodbye
        THEN C7_BudgetRun
        ELSE \E i \in { 2, 4 } \cap (1..Len(conversation_history)) :
                /\ GoodbyeAt(i)
                /\ \A j \in 1..(i - 1) : ~GoodbyeAt(j)
                /\ Len(conversation_history) \in { i, i + 1 }
                /\ returned[1].turn_count =
                       IF Len(conversation_history) = i + 1 THEN i - 1 ELSE i - 2
                /\ returned[1].turn_count < 5

\* C7 witness: in the scenario the Initiator's second turn said goodbye and
\* the closing reply was appended.
C7_Witness ==
    /\ C7_Scenario
    /\ Len(conversation_history) = 5
    /\ GoodbyeAt(4)
    /\ returned[1].turn_count = 3

\* Positions inside the conversation loop, and those inside an iteration.
LoopPcs ==
    { "loop_top", "user_call", "user_returned", "chat_call", "chat_returned",
      "final_call", "final_returned" }

IterationPcs == LoopPcs \ { "loop_top" }

\* A step of the start_conversation thread.
RunStep ==
    \/ Opening
    \/ UserGenerate
    \/ BootstrapReturned
    \/ LoopTop
    \/ ChatGenerate
    \/ ChatReturned
    \/ UserReturned
    \/ FinalReturned
    \/ Save

\* C8: a stop request changes nothing but the flag; with the flag down the
\* iteration in flight can still take each of its steps, the top of the loop
\* starts no new iteration, the loop is left for the save, and the save that
\* succeeds writes the history accumulated so far.
C8_StopIsCooperative ==
    /\ [][(conversation_active /\ ~conversation_active') =>
              UNCHANGED << pc, conversation_history, turn_count, calls,
                           last_message, response, saved, returned >>]_vars
    /\ [](~conversation_active /\ pc \in IterationPcs => ENABLED RunStep)
    /\ [][(~conversation_active /\ pc \in IterationPcs /\ pc' # pc) =>
              /\ pc' \in LoopPcs \cup { "save" }
              /\ Len(calls') = Len(calls) \/ pc' = "final_call"]_vars
    /\ [][(~conversation_active /\ pc = "loop_top") =>
              /\ pc' \in { "loop_top", "save" }
              /\ calls' = calls
              /\ conversation_history' = conversation_history]_vars
    /\ [][(pc = "save" /\ pc' # "save") =>
              /\ save_requests' = save_requests + 1
              /\ pc' = "done" =>
                     /\ saved' # <<>>
                     /\ saved'[1].conversation = conversation_history]_vars

\* C8 witness: a run that a stop request ended inside its budget, with no
\* failure and no goodbye, returned with its transcript saved.
C8_Witness ==
    /\ pc = "done"
    /\ ~conversation_active
    /\ gen_failed = 0
    /\ NoGoodbye
    /\ turn_count < max_turns
    /\ Len(conversation_history) >= 2
    /\ saved # <<>>
    /\ saved[1].conversation = conversation_history

\* C9: the orchestrator is reported active only while start_conversation
\* executes: not before the run, and not once it has returned.
C9_ActiveOnlyWhileRunning ==
    pc \in { "idle", "done", "raised" } => GetConversationStatus.active = FALSE

\* The loop is left at this step.
LoopExit == pc \in LoopPcs /\ pc' = "save"

\* The three exit reasons of C10, read at the step that leaves the loop.
BudgetExhausted == pc = "loop_top" /\ turn_count >= max_turns

GenerationFailed == pc \in { "chat_returned", "user_returned" } /\ ~response.some

ClosingPhraseMatched ==
    /\ pc = "final_returned"
    /\ \E i \in 1..Len(last_message.text) :
           LowerToken(last_message.text[i]) = "thank you, goodbye."

StopRequested == pc = "loop_top" /\ ~conversation_active

\* C10 as stated: the loop is left only because the budget is used up, a
\* generation call failed or the closing phrase matched.
C10_ThreeExitReasons ==
    [][LoopExit =>
          (BudgetExhausted \/ GenerationFailed \/ ClosingPhraseMatched)]_vars

\* C10 (amended): the loop is left only because the budget is used up, a
\* generation call failed, the closing phrase matched, or a stop request was
\* seen at the top of the loop.
C10_FourExitReasons ==
    [][LoopExit =>
          (BudgetExhausted \/ GenerationFailed \/ ClosingPhraseMatched
             \/ StopRequested)]_vars

\* C10 witness: the loop was left on a stop request alone.
C10_Witness ==
    /\ pc = "save"
    /\ ~conversation_active
    /\ turn_count < max_turns
    /\ gen_failed = 0
    /\ NoGoodbye
    /\ conversation_history # <<>>

\* ------------------------------------------------- claims on the personas
\* The agent whose generate_response is in flight.
CalledAgent ==
    IF pc \in { "bootstrap_call", "user_call" } THEN "user_agent" ELSE "chat_agent"

\* A generate_response call returns at this step.
GenerateReturns == CallInFlight /\ pc' # pc

\* C11: for both personas, a generate_response call made without a client
\* returns None, and a call that returns None (no client, or the provider
\* call raised) leaves the conversation history exactly as it was.
C11_FailedCallKeepsHistory ==
    [][GenerateReturns =>
          /\ ~llama_client[CalledAgent] => ~response'.some
          /\ ~response'.some => conversation_history' = conversation_history]_vars

\* C11 witness: the provider call of a configured UserAgent failed in the
\* middle of a conversation.
C11_Witness ==
    /\ pc = "user_returned"
    /\ ~response.some
    /\ llama_client["user_agent"]
    /\ Len(conversation_history) >= 2

\* A Responder turn is appended to the history at this step.
ChatTurnAppended ==
    /\ Len(conversation_history') = Len(conversation_history) + 1
    /\ conversation_history'[Len(conversation_history')].speaker = "chat_agent"

\* The Orchestrator appends the reply the Responder call just returned.
AppendsReturnedReply ==
    /\ pc \in { "chat_returned", "final_returned" }
    /\ response.some
    /\ conversation_history' =
           Append(conversation_history,
                  [conversation_history'[Len(conversation_history')]
                      EXCEPT !.speaker = "chat_agent", !.message = response.text])

\* C12 as stated: a Responder call never changes the history, and every
\* Responder turn is appended by the Orchestrator after the Responder call
\* returned a reply.
C12_ResponderTurnsFollowReply ==
    [][/\ (pc \in { "chat_call", "final_call" } /\ pc' # pc) =>
              conversation_history' = conversation_history
       /\ ChatTurnAppended => AppendsReturnedReply]_vars

\* C12 (amended): a Responder call never changes the history, and every
\* Responder turn is appended by the Orchestrator: the opening utterance
\* before any call, every other one after the Responder call returned the
\* reply it holds.
C12_ResponderTurnsFollowReplyOrOpen ==
    [][/\ (pc \in { "chat_call", "final_call" } /\ pc' # pc) =>
              conversation_history' = conversation_history
       /\ ChatTurnAppended =>
              \/ AppendsReturnedReply
              \/ /\ pc = "resolved"
                 /\ calls = <<>>
                 /\ conversation_history = <<>>
                 /\ conversation_history'[1].message = last_message.text]_vars

\* C12 witness: the last entry of the history is the reply the Responder
\* call returned.
C12_Witness ==
    /\ pc = "loop_top"
    /\ Len(conversation_history) >= 2
    /\ calls # <<>>
    /\ calls[Len(calls)].agent = "chat_agent"
    /\ response.some
    /\ conversation_history[Len(conversation_history)].speaker = "chat_agent"
    /\ conversation_history[Len(conversation_history)].message = response.text

\* C13: in the messages of every call, after the system prompt, each
\* history turn has the role "assistant" when the called persona spoke it
\* and "user" otherwise, the incoming message comes last as "user", and the
\* roles the two personas give the same turn are opposite.
C13_RolesAreInverted ==
    /\ \A n \in 1..Len(calls) :
           LET c == calls[n] IN
           c.messages # <<>> =>
               /\ Len(c.messages) = Len(c.context) + 2
               /\ c.messages[1].role = "system"
               /\ c.messages[Len(c.messages)] = [role |-> "user", content |-> c.message]
               /\ \A i \in 1..Len(c.context) :
                      /\ c.messages[i + 1].content = c.context[i].message
                      /\ c.messages[i + 1].role =
                             IF c.context[i].speaker = c.agent THEN "assistant"
                                                              ELSE "user"
    /\ \A m, n \in 1..Len(calls) :
           (/\ calls[m].agent = "user_agent" /\ calls[n].agent = "chat_agent"
            /\ calls[m].messages # <<>> /\ calls[n].messages # <<>>) =>
               \A i \in 1..Len(calls[m].context) :
                   i <= Len(calls[n].context) =>
                       calls[m].messages[i + 1].role # calls[n].messages[i + 1].role

\* C13 witness: both personas were called with a history of at least two
\* turns.
C13_Witness ==
    \E m, n \in 1..Len(calls) :
        /\ calls[m].agent = "user_agent" /\ calls[n].agent = "chat_agent"
        /\ Len(calls[m].messages) >= 4 /\ Len(calls[n].messages) >= 4

\* C20: a generation call starts only when none is in flight and no call
\* has failed, one call at a time, and the history it is given is the
\* previous call's history with that call's turn appended.
C20_CallsAreSequential ==
    /\ [](CallInFlight => calls # <<>>)
    /\ [][Len(calls') # Len(calls) =>
              /\ Len(calls') = Len(calls) + 1
              /\ ~CallInFlight
              /\ CallInFlight'
              /\ gen_failed = 0
              /\ calls # <<>> =>
                     LET prev == calls[Len(calls)]
                         new == calls'[Len(calls')]
                         k == Len(prev.context)
                     IN  /\ Len(new.context) = k + 1
                         /\ new.context[k + 1].speaker = prev.agent
                         /\ new.context[k + 1].message = response.text
                         /\ \A i \in 1..k :
                                /\ new.context[i].speaker = prev.context[i].speaker
                                /\ new.context[i].message = prev.context[i].message
                                /\ new.context[i].timestamp = prev.context[i].timestamp]_vars

\* C20 witness: the third call of a run is in flight.
C20_Witness ==
    /\ CallInFlight
    /\ Len(calls) >= 3
    /\ Len(calls[Len(calls)].context) >= 3

\* ------------------------------------------------------- transcript store
\* save_conversation and load_conversation of one UserAgent over the files
\* under conversations/, with files other programs left there.

MaxHistoryLen == 2

MaxClock == 2

\* What belongs to a run of the orchestrator, and to a batch.
runVars ==
    << conversation_active, initial_message, max_turns, greeting, turn_count,
       last_message, response, calls, gen_failed, save_requests, returned,
       llama_client >>

batchVars == << batch_pc, workers, results, results_lock, report, request >>

\* The turns and histories an agent may hold when the store is used.
StoreTurns ==
    { Turn(sp, m, 0, rt) :
        sp \in { "user_agent", "chat_agent" },
        m \in { <<"My order is late.">> },
        rt \in { Missing, 0 } }

Restamp(h) == [i \in 1..Len(h) |-> [h[i] EXCEPT !.timestamp = i]]

StoreHistories ==
    { Restamp(h) : h \in UNION { [1..n -> StoreTurns] : n \in 0..MaxHistoryLen } }

\* json.dump of one turn: the keys the dict has, response_time_seconds only
\* when the Orchestrator has set it.
JsonTurn(turn) ==
    IF turn.response_time_seconds = Missing
    THEN [speaker |-> turn.speaker, message |-> turn.message,
          timestamp |-> turn.timestamp]
    ELSE [speaker |-> turn.speaker, message |-> turn.message,
          timestamp |-> turn.timestamp,
          response_time_seconds |-> turn.response_time_seconds]

\* json.load of one turn, back to the dict.
DictTurn(obj) ==
    Turn(obj.speaker, obj.message, obj.timestamp,
         IF "response_time_seconds" \in DOMAIN obj
         THEN obj.response_time_seconds ELSE Missing)

\* The file save_conversation writes for a record.
JsonFile(rec) ==
    [parse |-> "object", has_conversation |-> TRUE,
     agent_id |-> rec.agent_id,
     conversation_start |-> rec.conversation_start,
     conversation_end |-> rec.conversation_end,
     total_turns |-> rec.total_turns,
     conversation |-> [i \in 1..Len(rec.conversation) |-> JsonTurn(rec.conversation[i])]]

\* Files that are no transcript: not JSON at all, a JSON array, and a JSON
\* object without the conversation field.
ForeignFile(kind) ==
    [parse |-> IF kind = "no_conversation" THEN "object" ELSE kind,
     has_conversation |-> FALSE,
     agent_id |-> "", conversation_start |-> -1, conversation_end |-> -1,
     total_turns |-> 0, conversation |-> <<>>]

ForeignKinds == { "error", "array", "no_conversation" }

ForeignPath(kind) == PathOf(kind, 0)

MissingPath == PathOf("missing", 0)

\* fs with the file at path p replaced.
WriteFile(files, p, content) ==
    [q \in DOMAIN files \cup { p } |-> IF q = p THEN content ELSE files[q]]

\* Mutant: loading merges the file's turns into the history in memory.
LoadedHistoryMerged(history, file) ==
    history \o [i \in 1..Len(file.conversation) |-> DictTurn(file.conversation[i])]

\* Line 219: data.get("conversation", []) of a parsed JSON object.
LoadedHistory(history, file) ==
    IF file.has_conversation
    THEN [i \in 1..Len(file.conversation) |-> DictTurn(file.conversation[i])]
    ELSE <<>>

\* Lines 215-224: whether load_conversation gets through its try block:
\* the file opens, parses, and the parsed value has a get method.
LoadSucceeds(files, p) == p \in DOMAIN files /\ files[p].parse = "object"

\* The files other programs left under conversations/.
ForeignFiles == [p \in { ForeignPath(k) : k \in ForeignKinds } |-> ForeignFile(p.agent_id)]

StoreInit ==
    /\ pc = "store"
    /\ conversation_history \in StoreHistories
    /\ now = 0
    /\ fs = ForeignFiles
    /\ saved = <<>>
    /\ load_result = [called |-> FALSE, ok |-> FALSE, path |-> NullPath]
    /\ conversation_active = FALSE
    /\ initial_message = None
    /\ max_turns = 0
    /\ greeting = None
    /\ turn_count = 0
    /\ last_message = None
    /\ response = None
    /\ calls = <<>>
    /\ gen_failed = 0
    /\ save_requests = 0
    /\ returned = <<>>
    /\ llama_client = [a \in { "user_agent", "chat_agent" } |-> TRUE]
    /\ batch_pc = "off"
    /\ workers = <<>>
    /\ results = <<>>
    /\ results_lock = "free"
    /\ report = <<>>
    /\ request = <<>>

\* save_conversation(filename=None), lines 178-203.
StoreSave ==
    /\ pc \in { "store", "loaded" }
    /\ pc' = "store"
    /\ fs' = WriteFile(fs, PathOf(UserAgentId, now),
                       JsonFile(TranscriptRecord(PathOf(UserAgentId, now),
                                                 conversation_history)))
    /\ saved' = << TranscriptRecord(PathOf(UserAgentId, now), conversation_history) >>
    /\ UNCHANGED << conversation_history, now, load_result, runVars, batchVars >>

\* The clock moves on to the next second.
StoreTick ==
    /\ pc \in { "store", "loaded" }
    /\ now < MaxClock
    /\ now' = now + 1
    /\ pc' = "store"
    /\ UNCHANGED << conversation_history, fs, saved, load_result, runVars, batchVars >>

\* clear_conversation, lines 226-228.
StoreClear ==
    /\ pc \in { "store", "loaded" }
    /\ conversation_history' = <<>>
    /\ pc' = "store"
    /\ UNCHANGED << now, fs, saved, load_result, runVars, batchVars >>

\* load_conversation(filepath), lines 205-224.
StoreLoad ==
    /\ pc \in { "store", "loaded" }
    /\ \E p \in DOMAIN fs \cup { MissingPath } :
          IF LoadSucceeds(fs, p)
          THEN /\ conversation_history' = LoadedHistory(conversation_history, fs[p])
               /\ load_result' = [called |-> TRUE, ok |-> TRUE, path |-> p]
          ELSE /\ conversation_history' = conversation_history
               /\ load_result' = [called |-> TRUE, ok |-> FALSE, path |-> p]
    /\ pc' = "loaded"
    /\ UNCHANGED << now, fs, saved, runVars, batchVars >>

StoreNext ==
    \/ StoreSave
    \/ StoreTick
    \/ StoreClear
    \/ StoreLoad

StoreSpec == StoreInit /\ [][StoreNext]_vars

\* C14: loading the file a save produced yields the saved history, turn for
\* turn and field for field, whatever the history in memory was, the empty
\* history included.
C14_SaveLoadRoundTrip ==
    (/\ pc = "loaded"
     /\ saved # <<>>
     /\ load_result.path = saved[1].path) =>
        /\ load_result.ok
        /\ conversation_history = saved[1].conversation

\* C14 witness: a two-turn history with a turn whose response time is not
\* set was saved, cleared and loaded back.
C14_Witness ==
    /\ pc = "loaded"
    /\ saved # <<>>
    /\ load_result.path = saved[1].path
    /\ Len(saved[1].conversation) = 2
    /\ saved[1].conversation[2].response_time_seconds = Missing
    /\ saved[1].conversation[1].response_time_seconds = 0
    /\ conversation_history = saved[1].conversation

\* The file at p is missing or is no well-formed transcript.
Malformed(files, p) ==
    \/ p \notin DOMAIN files
    \/ files[p].parse # "object"
    \/ ~files[p].has_conversation

\* C15: a load of a missing or malformed file reports failure and leaves
\* the history as it was; a successful load leaves exactly the file's turns.
C15_FailedLoadKeepsHistory ==
    [][pc' = "loaded" =>
          /\ Malformed(fs, load_result'.path) =>
                 /\ ~load_result'.ok
                 /\ conversation_history' = conversation_history
          /\ load_result'.ok =>
                 /\ Len(conversation_history') = Len(fs[load_result'.path].conversation)
                 /\ \A i \in 1..Len(conversation_history') :
                        conversation_history'[i].message =
                            fs[load_result'.path].conversation[i].message]_vars

\* ------------------------------------------------------------- batch runs
\* batch_run: one thread per Initiator template, each with its own agents
\* and orchestrator, a shared results map behind results_lock, and the
\* relocation of each transcript into the batch folder; next to it one
\* /simulate request served at the same time.

\* The seconds the clock may move on while the requests are served.
MaxBatchClock == 1

\* The Initiator templates the batch runs (user_agent_methods, in order).
BatchKeys == << "frustrated_customer", "confused_elderly" >>

BatchThreads == { BatchKeys[i] : i \in 1..Len(BatchKeys) }

SimulateThread == "simulate_request"

Threads == BatchThreads \cup { SimulateThread }

\* Lines 257-258: the same file name under conversations/batch_<ts>.
BatchPath(p) == [p EXCEPT !.folder = "conversations/batch"]

\* The template keys of the two endpoints (user_agent_methods and
\* chat_agent_methods).
UserAgentMethods ==
    { "frustrated_customer", "confused_elderly", "anxious_student",
      "demanding_executive", "frustrated_homeowner", "anxious_tech_user",
      "demanding_customer", "elderly_homeowner" }

ChatAgentMethods == { "homedepo_agent" }

\* The bodies a /simulate request and a /batch-run request may carry.
SimulateRequests ==
    { [user_agent_type |-> UserAgentId, chat_agent_type |-> "homedepo_agent"],
      [user_agent_type |-> "no_such_persona", chat_agent_type |-> "homedepo_agent"],
      [user_agent_type |-> UserAgentId, chat_agent_type |-> "no_such_agent"] }

BatchRequests ==
    { [chat_agent_type |-> c] : c \in { "homedepo_agent", "no_such_agent" } }

\* user_agent_methods.get(user_agent_type) finds a method.
KnownUser(key) == key \in UserAgentMethods

\* Mutant: any Responder key is taken for a known one.
KnownChatAlways(key) == TRUE

\* chat_agent_methods.get(chat_agent_type) finds a method.
KnownChat(key) == key \in ChatAgentMethods

\* A thread before it is started.
Unstarted(id) ==
    [pc |-> "unstarted", agent_id |-> id, history |-> <<>>,
     gen_failed |-> FALSE, raised |-> FALSE, saved_path |-> NullPath,
     result |-> <<>>]

\* batch_run's except branch, lines 274-280.
FailureEntry ==
    [success |-> FALSE, message |-> "Error", turn_count |-> 0,
     saved_filepath |-> NullPath]

\* batch_run's entry for a returned run, lines 264-270.
ResultEntry(result) ==
    [success |-> result.success, message |-> result.message,
     turn_count |-> result.turn_count, saved_filepath |-> result.saved_filepath]

\* Mutant: the lock is taken without waiting for it.
CanAcquireAlways(lock) == TRUE

\* with results_lock: the lock is free.
CanAcquire(lock) == lock = "free"

\* Mutant: conversation_history is one list shared by every UserAgent.
AppendTurnShared(ws, t, turn) ==
    [u \in DOMAIN ws |-> [ws[u] EXCEPT !.history = Append(@, turn)]]

\* user_agent.py line 54: each UserAgent appends to its own list.
AppendTurn(ws, t, turn) == [ws EXCEPT ![t].history = Append(@, turn)]

\* The opening turn of a thread's conversation, lines 52-61: the
\* Responder's greeting, here marked with the thread it was appended in.
OpeningTurnOf(t) == Turn("chat_agent", << "turn of", t >>, now, 0)

\* Mutant: the file is copied into the batch folder.
CopyFile(files, src, dst) ==
    [q \in DOMAIN files \cup { dst } |-> IF q = dst THEN files[src] ELSE files[q]]

\* Line 259, shutil.move: the file is at dst and no longer at src.
MoveFile(files, src, dst) ==
    [q \in (DOMAIN files \ { src }) \cup { dst } |->
        IF q = dst THEN files[src] ELSE files[q]]

\* Where a thread goes when its try block raises: a batch worker to its
\* except branch, the /simulate request to its error response.
AfterRaise(t) == IF t = SimulateThread THEN "finished" ELSE "except"

BatchInit ==
    /\ pc = "batch"
    /\ batch_pc = "received"
    /\ request \in { [simulate |-> sr, batch |-> br] :
                        sr \in SimulateRequests, br \in BatchRequests }
    /\ workers = [t \in Threads |->
                     Unstarted(IF t = SimulateThread
                               THEN request.simulate.user_agent_type ELSE t)]
    /\ results = <<>>
    /\ results_lock = "free"
    /\ report = <<>>
    /\ fs = <<>>
    /\ now = 0
    /\ conversation_history = <<>>
    /\ saved = <<>>
    /\ load_result = [called |-> FALSE, ok |-> FALSE, path |-> NullPath]
    /\ conversation_active = FALSE
    /\ initial_message = None
    /\ max_turns = 0
    /\ greeting = Str(Greeting)
    /\ turn_count = 0
    /\ last_message = None
    /\ response = None
    /\ calls = <<>>
    /\ gen_failed = 0
    /\ save_requests = 0
    /\ returned = <<>>
    /\ llama_client = [a \in { "user_agent", "chat_agent" } |-> TRUE]

\* What a step of the batch leaves alone.
batchRest ==
    << pc, conversation_history, saved, load_result, runVars, request >>

\* Lines 229-232: the Responder key of the batch request is looked up; an
\* unknown key ends the request with the error response.
BatchValidate ==
    /\ batch_pc = "received"
    /\ batch_pc' = IF KnownChat(request.batch.chat_agent_type)
                   THEN "spawning" ELSE "rejected"
    /\ UNCHANGED << workers, results, results_lock, report, fs, now, batchRest >>

\* Lines 283-290: the next thread of the batch is started.
BatchSpawn ==
    /\ batch_pc = "spawning"
    /\ \E i \in 1..Len(BatchKeys) :
          /\ workers[BatchKeys[i]].pc = "unstarted"
          /\ \A j \in 1..(i - 1) : workers[BatchKeys[j]].pc # "unstarted"
          /\ workers' = [workers EXCEPT ![BatchKeys[i]].pc = "create"]
          /\ batch_pc' = IF i = Len(BatchKeys) THEN "joining" ELSE "spawning"
    /\ UNCHANGED << results, results_lock, report, fs, now, batchRest >>

\* The /simulate request is served, lines 64-110: an unknown template key
\* ends it with the error response, else its agents are created and its
\* conversation runs up to the save.
SimulateArrives ==
    /\ workers[SimulateThread].pc = "unstarted"
    /\ IF /\ KnownUser(request.simulate.user_agent_type)
          /\ KnownChat(request.simulate.chat_agent_type)
       THEN workers' = AppendTurn([workers EXCEPT ![SimulateThread].pc = "save"],
                           SimulateThread,
                           OpeningTurnOf(SimulateThread))
       ELSE workers' = [workers EXCEPT ![SimulateThread].pc = "rejected"]
    /\ UNCHANGED << batch_pc, results, results_lock, report, fs, now, batchRest >>

\* Lines 241-246: the thread creates its agents and orchestrator,
\* or a prompt file is missing and the constructor raises.
WorkerCreate(t) ==
    /\ workers[t].pc = "create"
    /\ \/ workers' = [workers EXCEPT ![t].pc = "run"]
       \/ workers' = [workers EXCEPT ![t].pc = AfterRaise(t), ![t].raised = TRUE]
    /\ UNCHANGED << batch_pc, results, results_lock, report, fs, now, batchRest >>

\* start_conversation in the thread, lines 44-61: the greeting is appended
\* to the history of the thread's own Initiator.
WorkerTurn(t) ==
    /\ workers[t].pc = "run"
    /\ workers[t].history = <<>>
    /\ workers' = AppendTurn(workers, t, OpeningTurnOf(t))
    /\ UNCHANGED << batch_pc, results, results_lock, report, fs, now, batchRest >>

\* start_conversation in the thread, lines 83-163: the loop runs and is
\* left, after a generation failure or not.
WorkerLoopEnds(t) ==
    /\ workers[t].pc = "run"
    /\ workers[t].history # <<>>
    /\ \E failed \in BOOLEAN :
          workers' = [workers EXCEPT ![t].pc = "save", ![t].gen_failed = failed]
    /\ UNCHANGED << batch_pc, results, results_lock, report, fs, now, batchRest >>

\* start_conversation lines 165-171 in the thread: save_conversation writes
\* conversations/conversation_<agent_id>_<now>.json and the run returns
\* success = True, or the write raises.
WorkerSave(t) ==
    /\ workers[t].pc = "save"
    /\ LET path == PathOf(workers[t].agent_id, now) IN
       \/ /\ fs' = WriteFile(fs, path,
                       JsonFile([TranscriptRecord(path, workers[t].history)
                                    EXCEPT !.agent_id = workers[t].agent_id]))
          /\ workers' =
                 [workers EXCEPT
                    ![t].pc = IF t = SimulateThread THEN "finished" ELSE "move",
                    ![t].saved_path = path,
                    ![t].result =
                        << CreateResultDict(TRUE,
                               "Conversation completed successfully",
                               Len(workers[t].history), path,
                               workers[t].history) >>]
       \/ /\ workers' = [workers EXCEPT ![t].pc = AfterRaise(t), ![t].raised = TRUE]
          /\ fs' = fs
    /\ UNCHANGED << batch_pc, results, results_lock, report, now, batchRest >>

\* Lines 254-260: the saved file is moved into the batch folder, or
\* shutil.move raises (always when the file is no longer there).
WorkerMove(t) ==
    /\ workers[t].pc = "move"
    /\ LET src == workers[t].saved_path
           dst == BatchPath(workers[t].saved_path)
       IN \/ /\ src \in DOMAIN fs
             /\ fs' = MoveFile(fs, src, dst)
             /\ workers' =
                    [workers EXCEPT
                       ![t].pc = "store",
                       ![t].result = << [workers[t].result[1]
                                            EXCEPT !.saved_filepath = dst] >>]
          \/ /\ workers' = [workers EXCEPT ![t].pc = "except", ![t].raised = TRUE]
             /\ fs' = fs
    /\ UNCHANGED << batch_pc, results, results_lock, report, now, batchRest >>

\* Lines 263 and 273: with results_lock.
WorkerAcquire(t) ==
    /\ workers[t].pc \in { "store", "except" }
    /\ CanAcquire(results_lock)
    /\ results_lock' = t
    /\ workers' = [workers EXCEPT
                      ![t].pc = IF workers[t].pc = "store" THEN "store_locked"
                                                         ELSE "except_locked"]
    /\ UNCHANGED << batch_pc, results, report, fs, now, batchRest >>

\* Lines 264-270 and 274-280: the insert, and the release of the lock.
WorkerInsert(t) ==
    /\ workers[t].pc \in { "store_locked", "except_locked" }
    /\ results' =
           [k \in DOMAIN results \cup { t } |->
               IF k = t
               THEN IF workers[t].pc = "store_locked"
                    THEN ResultEntry(workers[t].result[1])
                    ELSE FailureEntry
               ELSE results[k]]
    /\ results_lock' = "free"
    /\ workers' = [workers EXCEPT ![t].pc = "finished"]
    /\ UNCHANGED << batch_pc, report, fs, now, batchRest >>

\* Sum of the entries' turn_count, over a set of keys.
RECURSIVE SumTurns(_, _)
SumTurns(map, keys) ==
    IF keys = {} THEN 0
    ELSE LET k == CHOOSE x \in keys : TRUE
         IN  map[k].turn_count + SumTurns(map, keys \ { k })

\* Mutant: every entry is counted as a successful run.
BatchReportCountsAll(map) ==
    [total_runs |-> Cardinality(DOMAIN map),
     successful_runs |-> Cardinality(DOMAIN map),
     total_turns |-> SumTurns(map, DOMAIN map),
     results |-> map]

\* Lines 296-310: the aggregate report.
BatchReport(map) ==
    [total_runs |-> Cardinality(DOMAIN map),
     successful_runs |-> Cardinality({ k \in DOMAIN map : map[k].success }),
     total_turns |-> SumTurns(map, DOMAIN map),
     results |-> map]

\* Lines 292-310: every thread is joined, then the report is built.
BatchJoin ==
    /\ batch_pc = "joining"
    /\ \A t \in BatchThreads : workers[t].pc = "finished"
    /\ report' = << BatchReport(results) >>
    /\ batch_pc' = "done"
    /\ UNCHANGED << workers, results, results_lock, fs, now, batchRest >>

\* The clock moves on to the next second.
BatchTick ==
    /\ now < MaxBatchClock
    /\ now' = now + 1
    /\ UNCHANGED << batch_pc, workers, results, results_lock, report, fs, batchRest >>

BatchNext ==
    \/ BatchValidate
    \/ BatchSpawn
    \/ SimulateArrives
    \/ \E t \in BatchThreads : WorkerCreate(t)
    \/ \E t \in BatchThreads : WorkerTurn(t)
    \/ \E t \in BatchThreads : WorkerLoopEnds(t)
    \/ \E t \in Threads : WorkerSave(t)
    \/ \E t \in BatchThreads : WorkerMove(t)
    \/ \E t \in BatchThreads : WorkerAcquire(t)
    \/ \E t \in BatchThreads : WorkerInsert(t)
    \/ BatchJoin
    \/ BatchTick

BatchSpec == BatchInit /\ [][BatchNext]_vars

\* ------------------------------------------------- claims about the batch

\* The pcs of a worker inside one of the two with results_lock blocks.
InsidePcs == { "store_locked", "except_locked" }

\* The worker's run did not complete: it raised, or a generation call of
\* its conversation failed.
RunFailed(t) == workers[t].raised \/ workers[t].gen_failed

\* C16: a batch over N templates ends with exactly N entries, one per
\* template key, and a worker that raised or whose run failed has recorded
\* a failure entry of its own.
C16_FailedRunHasFailureEntry ==
    /\ batch_pc = "done" =>
          /\ DOMAIN results = BatchThreads
          /\ report[1].total_runs = Len(BatchKeys)
    /\ \A t \in BatchThreads :
          (workers[t].pc = "finished" /\ RunFailed(t)) =>
              (t \in DOMAIN results /\ ~results[t].success)

\* The part of C16 the code keeps: N entries, one per key; a worker that
\* raised has the failure entry; an entry, once inserted, is never removed
\* or changed; and a worker that has not finished can take a step, or waits
\* for a lock whose holder can.
C16_EntriesPerKey ==
    /\ [](/\ batch_pc = "done" =>
                /\ DOMAIN results = BatchThreads
                /\ report[1].total_runs = Len(BatchKeys)
          /\ \A t \in BatchThreads :
                (workers[t].pc = "finished" /\ workers[t].raised) =>
                    (t \in DOMAIN results /\ results[t] = FailureEntry)
          /\ \A t \in BatchThreads :
                workers[t].pc \notin { "unstarted", "finished" } =>
                    \/ ENABLED (WorkerCreate(t) \/ WorkerTurn(t) \/ WorkerLoopEnds(t)
                                \/ WorkerSave(t) \/ WorkerMove(t)
                                \/ WorkerAcquire(t) \/ WorkerInsert(t))
                    \/ \E u \in BatchThreads \ { t } :
                          results_lock = u /\ ENABLED WorkerInsert(u))
    /\ [][\A k \in DOMAIN results :
             k \in DOMAIN results' /\ results'[k] = results[k]]_vars

\* C17: every insert into the results map is made by the worker holding
\* results_lock and touches that worker's entry only, at most one worker is
\* inside an insert at any time, and the report is built only when every
\* worker thread has terminated.
C17_InsertsUnderLock ==
    /\ [](Cardinality({ t \in BatchThreads : workers[t].pc \in InsidePcs }) <= 1)
    /\ [][results' # results =>
             \E t \in BatchThreads :
                /\ results_lock = t
                /\ workers[t].pc \in InsidePcs
                /\ DOMAIN results' = DOMAIN results \cup { t }
                /\ \A k \in DOMAIN results \ { t } : results'[k] = results[k]]_vars
    /\ [][report' # report =>
             \A t \in BatchThreads : workers[t].pc = "finished"]_vars

\* One worker is inside its insert while another waits for the lock.
C17_Witness ==
    \E t \in BatchThreads, u \in BatchThreads :
       /\ t # u
       /\ workers[t].pc \in InsidePcs
       /\ results_lock = t
       /\ workers[u].pc \in { "store", "except" }

\* The turns of the transcript a batch worker's result points to.
TranscriptTurns(t) ==
    IF /\ workers[t].result # <<>>
       /\ workers[t].result[1].saved_filepath \in DOMAIN fs
    THEN fs[workers[t].result[1].saved_filepath].conversation
    ELSE <<>>

\* C18: the runs of one batch share no conversation state: no turn
\* generated in one worker's run is in the history or in the transcript of
\* another worker of the batch.
C18_RunsAreIsolated ==
    \A t \in BatchThreads :
       /\ \A i \in 1..Len(workers[t].history) :
             workers[t].history[i].message[2] \notin BatchThreads \ { t }
       /\ \A i \in 1..Len(TranscriptTurns(t)) :
             TranscriptTurns(t)[i].message[2] \notin BatchThreads \ { t }

\* Two workers of the batch have each generated a turn and moved their
\* transcript into the batch folder.
C18_Witness ==
    \E t \in BatchThreads, u \in BatchThreads :
       /\ t # u
       /\ Len(workers[t].history) >= 1
       /\ Len(workers[u].history) >= 1
       /\ Len(TranscriptTurns(t)) >= 1
       /\ Len(TranscriptTurns(u)) >= 1

\* C19: the transcripts written by concurrently executing runs are at
\* pairwise distinct paths.
C19_WritesTargetDistinctPaths ==
    \A t \in Threads, u \in Threads :
       (t # u /\ workers[t].saved_path.some /\ workers[u].saved_path.some) =>
           workers[t].saved_path # workers[u].saved_path

\* ------------------------------------------- claims about the two endpoints

\* The /simulate request names a template key that is not known.
SimulateKeyUnknown ==
    \/ request.simulate.user_agent_type \notin UserAgentMethods
    \/ request.simulate.chat_agent_type \notin ChatAgentMethods

\* The /batch-run request names a Responder key that is not known.
BatchKeyUnknown == request.batch.chat_agent_type \notin ChatAgentMethods

\* C21: a request naming an unknown template key is rejected with no
\* persona created and no run started: the /simulate thread never leaves
\* its validation, the batch starts no worker thread and builds no report.
C21_UnknownKeyRejected ==
    /\ SimulateKeyUnknown =>
          /\ workers[SimulateThread].pc \in { "unstarted", "rejected" }
          /\ workers[SimulateThread].history = <<>>
          /\ workers[SimulateThread].result = <<>>
          /\ workers[SimulateThread].saved_path = NullPath
    /\ BatchKeyUnknown =>
          /\ batch_pc \in { "received", "rejected" }
          /\ \A t \in BatchThreads : workers[t] = Unstarted(t)
          /\ results = <<>>
          /\ report = <<>>
    /\ (SimulateKeyUnknown /\ BatchKeyUnknown) => fs = <<>>

\* Both endpoints have rejected a request: /simulate one with an unknown
\* Initiator key, /batch-run one with an unknown Responder key.
C21_Witness ==
    /\ batch_pc = "rejected"
    /\ workers[SimulateThread].pc = "rejected"
    /\ request.simulate.user_agent_type \notin UserAgentMethods

\* -------------------------------------------------- claims about one run

\* save_conversation is attempted at this step of the run.
SaveAttempt == pc = "save" /\ pc' # "save"

\* C22: when persisting the transcript fails the history in memory is left
\* as it was, and start_conversation still hands its caller a result.
C22_SaveFailureReported ==
    [][SaveAttempt =>
          /\ conversation_history' = conversation_history
          /\ returned' # <<>>]_vars

\* The part of C22 the code keeps: a save attempt, failed or not, leaves
\* the history in memory as it was.
C22_SaveKeepsHistory ==
    [][SaveAttempt => conversation_history' = conversation_history]_vars

\* ------------------------------------------- claims about the batch folder

\* The folder a batch moves its transcripts into.
InBatchFolder(p) == p.some /\ p.folder = "conversations/batch"

\* C23: once the batch is done every entry with a saved path points to a
\* file that is in the batch folder, and what a worker saved is no longer at
\* its original location (a file found there is the transcript a concurrent
\* request saved under the same name); a file enters the batch folder only
\* by the move of the worker that saved it, which takes it away from where
\* it was saved.
C23_FilesRelocated ==
    /\ [](batch_pc = "done" =>
             \A k \in DOMAIN results :
                results[k].saved_filepath.some =>
                   /\ InBatchFolder(results[k].saved_filepath)
                   /\ results[k].saved_filepath \in DOMAIN fs
                   /\ results[k].saved_filepath = BatchPath(workers[k].saved_path)
                   /\ workers[k].saved_path \in DOMAIN fs =>
                          /\ workers[SimulateThread].saved_path = workers[k].saved_path
                          /\ fs[workers[k].saved_path].conversation[1].message[2]
                                 = SimulateThread)
    /\ [][\A p \in DOMAIN fs' :
             (InBatchFolder(p) /\ (p \notin DOMAIN fs \/ fs'[p] # fs[p])) =>
                \E t \in BatchThreads :
                   /\ workers[t].pc = "move"
                   /\ workers'[t].pc = "store"
                   /\ workers[t].saved_path.some
                   /\ p = BatchPath(workers[t].saved_path)
                   /\ workers[t].saved_path \in DOMAIN fs
                   /\ workers[t].saved_path \notin DOMAIN fs'
                   /\ fs'[p] = fs[workers[t].saved_path]]_vars

\* The batch is done and both workers' entries point into the batch folder.
C23_Witness ==
    /\ batch_pc = "done"
    /\ \A t \in BatchThreads :
          /\ t \in DOMAIN results
          /\ InBatchFolder(results[t].saved_filepath)
          /\ results[t].saved_filepath \in DOMAIN fs

\* The turn_count of the entries of the first n template keys, added up.
RECURSIVE TurnsOfFirst(_, _)
TurnsOfFirst(map, n) ==
    IF n = 0 THEN 0
    ELSE (IF BatchKeys[n] \in DOMAIN map THEN map[BatchKeys[n]].turn_count ELSE 0)
         + TurnsOfFirst(map, n - 1)

\* C24: the report agrees with the entries of the results map: total_runs
\* is their number, successful_runs the number of those with success true
\* (so at most total_runs), total_turns the sum of their turn_count.
C24_ReportConsistent ==
    report # <<>> =>
        /\ report[1].results = results
        /\ report[1].total_runs = Cardinality(DOMAIN results)
        /\ report[1].successful_runs =
               Cardinality({ k \in DOMAIN results : results[k].success })
        /\ report[1].successful_runs <= report[1].total_runs
        /\ report[1].total_turns = TurnsOfFirst(results, Len(BatchKeys))

\* The report of a batch with one successful run of one turn and one
\* failure entry.
C24_Witness ==
    /\ report # <<>>
    /\ report[1].total_runs = 2
    /\ report[1].successful_runs = 1
    /\ report[1].total_turns = 1

\* ------------------------------------------------------ timing statistics
\* _calculate_timing_stats over the histories an agent may hold, with
\* response times in thousandths of a second.

MaxTimingLen == 3

\* A response_time_seconds string that float() rejects (line 229).
Unparseable == -2

\* The values of response_time_seconds: absent, unparseable, "0.0",
\* "0.001", "0.3", "0.5" and "1.2".
ResponseTimes == { Missing, Unparseable, 0, 1, 300, 500, 1200 }

TimingHistories ==
    UNION { [1..n -> { Turn(sp, <<"My order is late.">>, 0, rt) :
                          sp \in { "user_agent", "chat_agent" },
                          rt \in ResponseTimes }] : n \in 0..MaxTimingLen }

\* Lines 221-231: the response times of one role, in history order; a turn
\* without the key or with an unparseable value is skipped.
RECURSIVE TimesOf(_, _)
TimesOf(history, role) ==
    IF history = <<>> THEN <<>>
    ELSE (IF /\ Head(history).response_time_seconds # Missing
             /\ Head(history).response_time_seconds # Unparseable
             /\ Head(history).speaker = role
          THEN << Head(history).response_time_seconds >>
          ELSE <<>>)
         \o TimesOf(Tail(history), role)

\* sum(times)
RECURSIVE SumOf(_)
SumOf(times) == IF times = <<>> THEN 0 ELSE Head(times) + SumOf(Tail(times))

\* min(times)
RECURSIVE MinOf(_)
MinOf(times) ==
    IF Len(times) = 1 THEN times[1]
    ELSE LET m == MinOf(Tail(times)) IN IF Head(times) < m THEN Head(times) ELSE m

\* max(times)
RECURSIVE MaxOf(_)
MaxOf(times) ==
    IF Len(times) = 1 THEN times[1]
    ELSE LET m == MaxOf(Tail(times)) IN IF Head(times) > m THEN Head(times) ELSE m

\* Mutant: the average is cut off after the third decimal.
TruncatedAverages(total, n) == { total \div n }

\* round(sum / len, 3): the nearest thousandth; on a tie the binary value of
\* the quotient decides, so either neighbour is possible.
RoundedAverages(total, n) ==
    { q \in { total \div n, total \div n + 1 } :
         2 * (IF q * n >= total THEN q * n - total ELSE total - q * n) <= n }

\* Lines 235-241 (242-248): the statistics of one role.
RoleStats(times, average) ==
    IF times = <<>>
    THEN [total_requests |-> 0, total_time_seconds |-> 0,
          average_time_seconds |-> 0, min_time_seconds |-> 0,
          max_time_seconds |-> 0]
    ELSE [total_requests |-> Len(times), total_time_seconds |-> SumOf(times),
          average_time_seconds |-> average, min_time_seconds |-> MinOf(times),
          max_time_seconds |-> MaxOf(times)]

\* The averages a role's times may be reported with.
Averages(times) ==
    IF times = <<>> THEN { 0 } ELSE RoundedAverages(SumOf(times), Len(times))

TimingInit ==
    /\ pc = "timing"
    /\ conversation_history \in TimingHistories
    /\ now = 0
    /\ fs = <<>>
    /\ saved = <<>>
    /\ load_result = [called |-> FALSE, ok |-> FALSE, path |-> NullPath]
    /\ conversation_active = FALSE
    /\ initial_message = None
    /\ max_turns = 0
    /\ greeting = None
    /\ turn_count = 0
    /\ last_message = None
    /\ response = None
    /\ calls = <<>>
    /\ gen_failed = 0
    /\ save_requests = 0
    /\ returned = <<>>
    /\ llama_client = [a \in { "user_agent", "chat_agent" } |-> TRUE]
    /\ batch_pc = "off"
    /\ workers = <<>>
    /\ results = <<>>
    /\ results_lock = "free"
    /\ report = <<>>
    /\ request = <<>>

\* _calculate_timing_stats, lines 211-251.
CalculateTimingStats ==
    /\ pc = "timing"
    /\ LET user_agent_times == TimesOf(conversation_history, "user_agent")
           chat_agent_times == TimesOf(conversation_history, "chat_agent")
       IN \E ua \in Averages(user_agent_times), ca \in Averages(chat_agent_times) :
             returned' =
                 << [total_requests |-> Len(user_agent_times) + Len(chat_agent_times),
                     user_agent |-> RoleStats(user_agent_times, ua),
                     chat_agent |-> RoleStats(chat_agent_times, ca)] >>
    /\ pc' = "timing_done"
    /\ UNCHANGED << conversation_active, initial_message, max_turns, greeting,
                    turn_count, last_message, response, conversation_history,
                    now, calls, gen_failed, save_requests, saved >>
    /\ UNCHANGED others

TimingNext == CalculateTimingStats

TimingSpec == TimingInit /\ [][TimingNext]_vars

\* The entries of the history that count for a role: its turns whose
\* response time is there and parses.
TimedTurns(role) ==
    { i \in 1..Len(conversation_history) :
         /\ conversation_history[i].speaker = role
         /\ conversation_history[i].response_time_seconds >= 0 }

\* The response times of a set of entries, added up.
RECURSIVE TotalOver(_)
TotalOver(entries) ==
    IF entries = {} THEN 0
    ELSE LET i == CHOOSE x \in entries : TRUE
         IN  conversation_history[i].response_time_seconds + TotalOver(entries \ { i })

\* The statistics reported for a role are those of its timed turns.
StatsAgree(stats, role) ==
    LET timed == TimedTurns(role)
        n == Cardinality(timed)
        gap == stats.average_time_seconds * n - stats.total_time_seconds
    IN  /\ stats.total_requests = n
        /\ stats.total_time_seconds = TotalOver(timed)
        /\ 2 * (IF gap >= 0 THEN gap ELSE -gap) <= n
        /\ IF timed = {}
           THEN /\ stats.average_time_seconds = 0
                /\ stats.min_time_seconds = 0
                /\ stats.max_time_seconds = 0
           ELSE /\ \E i \in timed :
                      conversation_history[i].response_time_seconds = stats.min_time_seconds
                /\ \E i \in timed :
                      conversation_history[i].response_time_seconds = stats.max_time_seconds
                /\ \A i \in timed :
                      /\ stats.min_time_seconds <= conversation_history[i].response_time_seconds
                      /\ conversation_history[i].response_time_seconds <= stats.max_time_seconds

\* C25: for each role the statistics report the number of its turns with a
\* parseable response time, their sum, the sum divided by the number and
\* rounded to the thousandth, and the smallest and largest of them, all zero
\* when there is none; the times 0.5, 1.2, 0.3 give 0.667, 0.3 and 1.2.
C25_TimingStatistics ==
    pc = "timing_done" =>
        /\ StatsAgree(returned[1].user_agent, "user_agent")
        /\ StatsAgree(returned[1].chat_agent, "chat_agent")
        /\ returned[1].total_requests =
               Cardinality(TimedTurns("user_agent")) + Cardinality(TimedTurns("chat_agent"))
        /\ \A role \in { "user_agent", "chat_agent" } :
               [i \in 1..Len(conversation_history) |->
                   conversation_history[i].response_time_seconds] = << 500, 1200, 300 >>
               /\ (\A i \in 1..Len(conversation_history) :
                       conversation_history[i].speaker = role)
               => LET stats == IF role = "user_agent" THEN returned[1].user_agent
                                                      ELSE returned[1].chat_agent
                  IN  /\ stats.average_time_seconds = 667
                      /\ stats.min_time_seconds = 300
                      /\ stats.max_time_seconds = 1200

\* The statistics of the Initiator's times 0.5, 1.2 and 0.3 were computed.
C25_Witness ==
    /\ pc = "timing_done"
    /\ TimesOf(conversation_history, "user_agent") = << 500, 1200, 300 >>
    /\ returned[1].user_agent.average_time_seconds = 667
    /\ returned[1].user_agent.total_time_seconds = 2000

\* ------------------------------------------- claims about the run's turns

\* The top of the loop starts an iteration at this step.
IterationStarts == pc = "loop_top" /\ pc' \in { "chat_call", "user_call" }

\* C26: in the runs that have an opening utterance, explicit or the
\* Responder's greeting alike, the speaker chosen at a counter value is the
\* same: the Initiator at 0, right after the opening, and from there on in
\* turns, so the Initiator at every even value and the Responder at every
\* odd one.
C26_SpeakerFromCounterAndOpening ==
    [][(IterationStarts /\ HasOpening) =>
          (pc' = "user_call" <=> turn_count % 2 = 0)]_vars

\* The opening utterance of the run, when it has one.
OpeningText == IF initial_message.some THEN initial_message.text ELSE greeting.text

\* C27: an opening utterance is appended to the Initiator's history as a
\* Responder turn with response time "0.0" before any generation call is
\* made, it is the first entry the run adds and every call sees it there,
\* and the turn counter is 0 when the loop starts.
C27_OpeningAppendedFirst ==
    /\ [][(pc = "resolved" /\ pc' # pc /\ HasOpening) =>
             /\ calls = <<>> /\ calls' = <<>>
             /\ conversation_history' =
                    Append(conversation_history,
                           [speaker |-> "chat_agent", message |-> OpeningText,
                            timestamp |-> now, response_time_seconds |-> 0])
             /\ pc' = "loop_top"
             /\ turn_count' = 0]_vars
    /\ []((HasOpening /\ pc \notin { "idle", "resolved" }) =>
             /\ conversation_history # <<>>
             /\ conversation_history[1].speaker = "chat_agent"
             /\ conversation_history[1].message = OpeningText
             /\ conversation_history[1].response_time_seconds = 0
             /\ \A n \in 1..Len(calls) :
                    /\ calls[n].context # <<>>
                    /\ calls[n].context[1] = conversation_history[1])
    /\ []((HasOpening /\ pc = "loop_top" /\ calls = <<>>) =>
             /\ turn_count = 0
             /\ Len(conversation_history) = 1)

\* The Responder's greeting opened the run and the loop is about to start.
C27_Witness ==
    /\ pc = "loop_top"
    /\ calls = <<>>
    /\ ~initial_message.some
    /\ Truthy(greeting)
    /\ turn_count = 0
    /\ conversation_history = << OpeningTurn(greeting.text, 0) >>

\* C28: without an opening utterance the first generation call of the run
\* is the Initiator's, made with the fixed bootstrap message on an empty
\* history; when it succeeds the loop starts with the turn counter at 1 and
\* the Responder speaks next; when it fails the run returns a result with
\* success false and the history holds no turn.
C28_BootstrapWhenNoOpening ==
    /\ []((~HasOpening /\ calls # <<>>) =>
             /\ calls[1].agent = "user_agent"
             /\ calls[1].message = BootstrapMessage
             /\ calls[1].context = <<>>)
    /\ [][(pc = "resolved" /\ pc' # pc /\ ~HasOpening) =>
             /\ pc' = "bootstrap_call"
             /\ Len(calls') = 1
             /\ conversation_history' = <<>>]_vars
    /\ [][(pc = "bootstrap_returned" /\ pc' # pc) =>
             IF response.some
             THEN /\ pc' = "loop_top"
                  /\ turn_count' = 1
                  /\ Len(conversation_history') = 1
                  /\ conversation_history'[1].speaker = "user_agent"
                  /\ conversation_history'[1].message = response.text
                  /\ returned' = <<>>
             ELSE /\ pc' = "done"
                  /\ returned' # <<>>
                  /\ returned'[1].success = FALSE
                  /\ conversation_history' = <<>>]_vars
    /\ [][(IterationStarts /\ ~HasOpening /\ turn_count = 1) =>
             pc' = "chat_call"]_vars

\* After a successful bootstrap call the Responder was called at counter 1.
C28_Witness ==
    /\ ~HasOpening
    /\ pc = "chat_call"
    /\ turn_count = 1
    /\ Len(calls) = 2
    /\ calls[1].message = BootstrapMessage
    /\ calls[2].agent = "chat_agent"

\* An Initiator generate_response call returns a reply at this step.
InitiatorReplies ==
    /\ pc \in { "bootstrap_call", "user_call" }
    /\ pc' # pc
    /\ response'.some

\* C29: an Initiator call that returns a reply appends exactly one turn,
\* spoken by user_agent and holding the returned text, to the end of the
\* history and changes no earlier entry; the Orchestrator's next step sets
\* that turn's response time, so it is set when the next call starts.
C29_InitiatorAppendsOneTurn ==
    /\ [][InitiatorReplies =>
             /\ Len(conversation_history') = Len(conversation_history) + 1
             /\ conversation_history'[Len(conversation_history')].speaker = "user_agent"
             /\ conversation_history'[Len(conversation_history')].message = response'.text
             /\ \A i \in 1..Len(conversation_history) :
                    conversation_history'[i] = conversation_history[i]]_vars
    /\ [][(pc \in { "bootstrap_returned", "user_returned" } /\ pc' # pc /\ response.some) =>
             /\ Len(conversation_history') = Len(conversation_history)
             /\ conversation_history'[Len(conversation_history')].response_time_seconds
                    # Missing]_vars
    /\ [][Len(calls') > Len(calls) =>
             \A i \in 1..Len(conversation_history') :
                conversation_history'[i].response_time_seconds # Missing]_vars

\* A Responder call is in flight right after an Initiator turn whose
\* response time was set.
C29_Witness ==
    /\ pc = "chat_call"
    /\ Len(conversation_history) >= 2
    /\ conversation_history[Len(conversation_history)].speaker = "user_agent"
    /\ conversation_history[Len(conversation_history)].message = response.text
    /\ conversation_history[Len(conversation_history)].response_time_seconds > 0

\* C30: during a run the history only grows at its end, one entry at a
\* time; an entry's speaker, message and timestamp never change; the only
\* change to an entry is the setting of the response time of the Initiator
\* turn that is last at that moment.
C30_HistoryAppendOnly ==
    [][/\ Len(conversation_history') >= Len(conversation_history)
       /\ Len(conversation_history') <= Len(conversation_history) + 1
       /\ \A i \in 1..Len(conversation_history) :
             /\ conversation_history'[i].speaker = conversation_history[i].speaker
             /\ conversation_history'[i].message = conversation_history[i].message
             /\ conversation_history'[i].timestamp = conversation_history[i].timestamp
             /\ conversation_history'[i].response_time_seconds
                   # conversation_history[i].response_time_seconds =>
                   /\ i = Len(conversation_history)
                   /\ Len(conversation_history') = Len(conversation_history)
                   /\ conversation_history[i].speaker = "user_agent"
                   /\ conversation_history[i].response_time_seconds = Missing
                   /\ conversation_history'[i].response_time_seconds # Missing]_vars

\* An Initiator turn whose response time was set is followed by a later
\* entry of the history.
C30_Witness ==
    /\ Len(conversation_history) >= 3
    /\ conversation_history[2].speaker = "user_agent"
    /\ conversation_history[2].response_time_seconds > 0
    /\ conversation_history[3].speaker = "chat_agent"

\* ------------------------------------------------ claims about termination

\* The start_conversation thread keeps running and every generation call
\* it waits for comes back, with a text or with a failure.
LiveSpec == Spec /\ WF_vars(RunStep)

\* start_conversation is over: it returned its result, or the exception of
\* a failed save left it.
RunOver == pc \in { "done", "raised" }

\* An iteration of the loop ends at this step.
IterationEnds == pc \in IterationPcs /\ pc' \in { "loop_top", "save" }

\* C31: with every generation call coming back, a started run is
\* eventually over; an iteration of the loop, when it ends, has left the
\* loop or has raised the turn counter by exactly one; and a run makes at
\* most max_turns + 1 generation calls.
C31_RunTerminates ==
    /\ (pc = "resolved") ~> RunOver
    /\ [][IterationEnds =>
             \/ pc' = "save"
             \/ turn_count' = turn_count + 1]_vars
    /\ [][(pc \in IterationPcs /\ ~IterationEnds) => turn_count' = turn_count]_vars
    /\ [][Len(calls') <= max_turns' + 1]_vars

\* A run that used max_turns + 1 generation calls is over: the bootstrap
\* call, the calls of the loop and the closing Responder call.
C31_Witness ==
    /\ pc = "done"
    /\ max_turns >= 2
    /\ Len(calls) = max_turns + 1

\* --------------------------------------- claims about the generation calls

\* The persona that is not the one asked.
OtherPersona(agent) == IF agent = "user_agent" THEN "chat_agent" ELSE "user_agent"

\* Call n hands the asked persona the newest turn of the history, spoken
\* by the other persona, or the bootstrap message to the Initiator while
\* the history is empty.
IncomingFromOther(n) ==
    LET c == calls[n]
        k == Len(c.context)
    IN  IF k = 0
        THEN c.agent = "user_agent" /\ c.message = BootstrapMessage
        ELSE /\ c.context[k].speaker = OtherPersona(c.agent)
             /\ c.context[k].message = c.message

\* C32: in every generation call of a run the incoming message is the most
\* recent message of the other persona, or the bootstrap message on the
\* Initiator's first turn without an opening; no persona is asked to
\* answer its own message.
C32_IncomingFromOtherPersona ==
    \A n \in 1..Len(calls) : IncomingFromOther(n)

\* C32, the part that holds: in a run whose initial_message argument is
\* None or empty every call hands over the other persona's newest message.
C32_HeldWithoutExplicitOpening ==
    ~Truthy(initial_message) => \A n \in 1..Len(calls) : IncomingFromOther(n)

\* The Responder is called with its own opening as the incoming message.
C32_OwnMessage ==
    /\ Len(calls) >= 1
    /\ calls[1].agent = "chat_agent"
    /\ calls[1].message = ExplicitOpening
    /\ calls[1].context[Len(calls[1].context)].speaker = "chat_agent"

\* In the messages of call n the incoming message, appended as the newest
\* "user" message, follows the same turn taken from the history.
IncomingTwice(n) ==
    LET c == calls[n]
        k == Len(c.context)
    IN  /\ k >= 1
        /\ Len(c.messages) = k + 2
        /\ c.context[k].message = c.message
        /\ c.messages[k + 1].content = c.messages[k + 2].content

\* C33: the messages sent to the provider in a generation call hold every
\* conversation turn exactly once: one message per turn after the system
\* prompt, the incoming message not being the last turn of the history
\* over again.
C33_EachTurnOnce ==
    \A n \in 1..Len(calls) :
        calls[n].messages # <<>> =>
            /\ ~IncomingTwice(n)
            /\ Len(calls[n].messages) = 1 + (IF calls[n].context = <<>> THEN 1
                                             ELSE Len(calls[n].context))

\* C33, the part that holds: the bootstrap call, made on an empty
\* history, sends the system prompt and the bootstrap message only.
C33_BootstrapCallHeld ==
    \A n \in 1..Len(calls) :
        (calls[n].messages # <<>> /\ calls[n].context = <<>>) =>
            /\ Len(calls[n].messages) = 2
            /\ calls[n].messages[2].content = BootstrapMessage

\* The Initiator's first call after the greeting carries the greeting
\* twice.
C33_GreetingTwice ==
    /\ Len(calls) >= 1
    /\ calls[1].agent = "user_agent"
    /\ calls[1].context # <<>>
    /\ calls[1].messages # <<>>
    /\ IncomingTwice(1)

\* ------------------------------------------ claims about the run's bounds

\* C34: in a run with max_turns >= 1 the turn counter, and the turn_count
\* the run reports, never exceed max_turns, and the history never holds
\* more than max_turns + 2 turns, the closing Responder turn included.
C34_CountAndHistoryBounded ==
    max_turns >= 1 =>
        /\ turn_count <= max_turns
        /\ Len(conversation_history) <= max_turns + 2
        /\ (pc = "done" /\ Len(returned) >= 1) =>
               returned[1].turn_count <= max_turns

\* A run that used its whole budget and ended with the closing Responder
\* turn: an opening, max_turns turns, the closing turn being counted, and
\* the Initiator's goodbye before it.
C34_Witness ==
    /\ pc = "done"
    /\ max_turns >= 2
    /\ Len(returned) >= 1
    /\ returned[1].turn_count = max_turns
    /\ Len(conversation_history) = max_turns + 2
    /\ conversation_history[max_turns + 2].speaker = "chat_agent"
    /\ ShouldEndConversation(conversation_history[max_turns + 1].message)

\* ------------------------------------------ claims about the saved record

\* save_conversation has been requested: the run is at line 168 or past it.
SaveRequested == pc = "save" \/ save_requests >= 1

\* C35: the transcript a run persists is the Initiator's final history.
\* Once the save is requested no turn is appended or changed; the record's
\* total_turns is the number of persisted turns and the total_turns of the
\* summary in the run's result; the summary's user_agent_turns and
\* chat_agent_turns add up to it; conversation_start and conversation_end
\* are the timestamps of the first and the last turn, null on an empty
\* history.
C35_TranscriptIsFinalHistory ==
    /\ [][SaveRequested => conversation_history' = conversation_history]_vars
    /\ [](pc = "done" /\ Len(saved) >= 1 /\ Len(returned) >= 1 =>
            LET rec == saved[1]
                summary == returned[1].conversation_summary
                n == Len(rec.conversation)
            IN  /\ rec.conversation = conversation_history
                /\ rec.total_turns = n
                /\ summary.total_turns = n
                /\ summary.user_agent_turns + summary.chat_agent_turns = n
                /\ IF n = 0
                   THEN rec.conversation_start = -1 /\ rec.conversation_end = -1
                   ELSE /\ rec.conversation_start = rec.conversation[1].timestamp
                        /\ rec.conversation_end = rec.conversation[n].timestamp)

\* A run has saved a transcript of turns of both personas whose first and
\* last timestamps differ.
C35_Witness ==
    /\ pc = "done"
    /\ Len(saved) >= 1
    /\ Len(returned) >= 1
    /\ saved[1].total_turns >= 3
    /\ returned[1].conversation_summary.user_agent_turns >= 1
    /\ returned[1].conversation_summary.chat_agent_turns >= 2
    /\ saved[1].conversation_start < saved[1].conversation_end

\* C35, the empty history, which save_conversation meets only when it is
\* called outside a run: the record has no turns and null timestamps.
C35_EmptyHistoryNullStamps ==
    (Len(saved) >= 1 /\ saved[1].conversation = <<>>) =>
        /\ saved[1].total_turns = 0
        /\ saved[1].conversation_start = -1
        /\ saved[1].conversation_end = -1

\* An empty history has been saved.
C35_EmptySaved == Len(saved) >= 1 /\ saved[1].conversation = <<>>

\* Every turn of the history carries a response time: the key is present.
AllTimed(history) ==
    \A i \in 1..Len(history) : history[i].response_time_seconds # Missing

\* C36: when a run's transcript is saved every turn of the history has its
\* speaker, message, timestamp and response_time_seconds; no Initiator
\* turn is persisted with its response time still unset, whichever way the
\* loop was left.
C36_SavedTurnsAreTimed ==
    /\ pc = "save" =>
           /\ AllTimed(conversation_history)
           /\ \A i \in 1..Len(conversation_history) :
                  /\ conversation_history[i].speaker \in { "user_agent", "chat_agent" }
                  /\ conversation_history[i].timestamp >= 0
    /\ Len(saved) >= 1 => AllTimed(saved[1].conversation)

\* A transcript was saved after the loop was left by a failed Responder
\* call: its last turn is the Initiator's, with its response time set.
C36_Witness ==
    /\ pc = "done"
    /\ Len(saved) >= 1
    /\ gen_failed >= 1
    /\ Len(saved[1].conversation) >= 2
    /\ LET last == saved[1].conversation[Len(saved[1].conversation)]
       IN  last.speaker = "user_agent" /\ last.response_time_seconds > 0

\* ------------------------------------- claims about a run's timing figures

\* _calculate_timing_stats on a history, the figures read here:
\* total_requests, and the Responder's total_requests and min_time_seconds.
TimingStatisticsOf(history) ==
    LET user_agent_times == TimesOf(history, "user_agent")
        chat_agent_times == TimesOf(history, "chat_agent")
    IN  [total_requests |-> Len(user_agent_times) + Len(chat_agent_times),
         chat_agent_requests |-> Len(chat_agent_times),
         chat_agent_min |-> IF chat_agent_times = <<>> THEN 0
                            ELSE MinOf(chat_agent_times)]

\* The generation calls of the run that came back with a text.
SucceededCalls == Len(calls) - gen_failed

\* The turns of the history that a generation call produced: all but the
\* opening utterance.
GeneratedTurns ==
    IF HasOpening /\ conversation_history # <<>>
    THEN Tail(conversation_history)
    ELSE conversation_history

\* The closing Responder call came back with an empty text, which line 149
\* drops.
EmptyClosingReply ==
    /\ response = Str(<<>>)
    /\ conversation_history # <<>>
    /\ conversation_history[Len(conversation_history)].speaker = "user_agent"
    /\ ShouldEndConversation(conversation_history[Len(conversation_history)].message)

\* C37: the total_requests of a returned run's timing statistics is the
\* number of its generation calls that succeeded; the opening utterance is
\* no request: it is neither in the Responder's count nor in its minimum.
C37_RequestsAreSucceededCalls ==
    pc = "done" =>
        LET stats == TimingStatisticsOf(conversation_history)
            generated == TimesOf(GeneratedTurns, "chat_agent")
        IN  /\ stats.total_requests = SucceededCalls
            /\ stats.chat_agent_requests = Len(generated)
            /\ stats.chat_agent_min = IF generated = <<>> THEN 0
                                      ELSE MinOf(generated)

\* C37, what holds instead: every turn of the history is counted as a
\* request, the opening included, and the turns are the succeeded calls,
\* plus the opening, less a closing reply that came back empty.
C37_RequestsAreTurns ==
    pc = "done" =>
        /\ TimingStatisticsOf(conversation_history).total_requests
               = Len(conversation_history)
        /\ Len(conversation_history)
               = SucceededCalls + (IF HasOpening THEN 1 ELSE 0)
                                - (IF EmptyClosingReply THEN 1 ELSE 0)

\* A run with the greeting as its opening and one Initiator turn reports
\* two requests and a Responder minimum of zero after one generation call.
C37_OpeningCounted ==
    /\ pc = "done"
    /\ HasOpening
    /\ SucceededCalls = 1
    /\ TimingStatisticsOf(conversation_history).total_requests = 2
    /\ TimingStatisticsOf(conversation_history).chat_agent_requests = 1
    /\ TimingStatisticsOf(conversation_history).chat_agent_min = 0

====
